---- MODULE Spec2Model ----
(***************************************************************************)
(* Model of the document -> knowledge-graph pipeline of app.py and of the  *)
(* helper functions of utils.py it calls.                                  *)
(*                                                                         *)
(* Python strings are sequences of one-character strings.  A value that    *)
(* may be None (os.getenv, dict.get) is a record [none, s].                *)
(***************************************************************************)
EXTENDS Integers, Sequences, FiniteSets, TLC

VARIABLES
  pc,                       \* position in app.py ("l<line>"), "done", "raised", or a unit-call position
  TOKEN,                    \* app.py:9
  system_instruct_0,        \* app.py:21
  system_instruct_1,        \* app.py:22
  system_instruct_2,        \* app.py:23
  document_text,            \* app.py:33
  themes_relationships,     \* app.py:41
  delimited_node_edge_str,  \* app.py:53
  cypher_query_draft,       \* app.py:59
  cypher_query_final,       \* app.py:69, 88, 101
  attempt,                  \* app.py:82
  success,                  \* app.py:83
  truncated_cypher,         \* app.py:116
  exc,                      \* the exception that ended the run (or the unit call), NoExc if none
  posts,                    \* number of requests.post calls made so far
  hist,                     \* observation counters of the calls made (see Hist0)
  started,                  \* pipeline stages that have started
  returned,                 \* pipeline stages that have returned a result
  draft0,                   \* the value the Query Drafting Stage returned
  repair_in,                \* set of input texts handed to the repair calls
  fnOp, fnIn, fnArgs, fnOut \* direct call of a utils.py function: name, text input, other arguments, result

vars == <<pc, TOKEN, system_instruct_0, system_instruct_1, system_instruct_2,
          document_text, themes_relationships, delimited_node_edge_str,
          cypher_query_draft, cypher_query_final, attempt, success,
          truncated_cypher, exc, posts, hist, started, returned, draft0,
          repair_in, fnOp, fnIn, fnArgs, fnOut>>

pipeVars == <<TOKEN, system_instruct_0, system_instruct_1, system_instruct_2,
              document_text, themes_relationships, delimited_node_edge_str,
              cypher_query_draft, cypher_query_final, attempt, success,
              truncated_cypher, hist, started, returned, draft0, repair_in>>

unitVars == <<fnOp, fnIn, fnArgs, fnOut>>

----------------------------------------------------------------------------
(* Bounds *)

\* longest text handed directly to special_delim_token / clean_cypher_query
MaxLen == 4
\* longest text a hosted model returns inside the pipeline
MaxOut == 2

----------------------------------------------------------------------------
(* Python values *)

None == [none |-> TRUE, s |-> <<>>]
Str(s) == [none |-> FALSE, s |-> s]
\* truth value of an optional string, as all([...]) sees it
Truthy(v) == ~v.none /\ v.s # <<>>

Whitespace == {" ", "\n"}
Chars == {"a", "b", " ", "\n"}
OutChars == {"a", "\n"}

StringsOver(alphabet, n) == UNION {[1..k -> alphabet] : k \in 0..n}
UnitTexts == StringsOver(Chars, MaxLen)
ModelTexts == StringsOver(OutChars, MaxOut)
OptValues == {None, Str(<<>>), Str(<<"i">>)}

NoExc == [type |-> "none", msg |-> "", line |-> 0]
Raise(type, msg, line) == [type |-> type, msg |-> msg, line |-> line]

----------------------------------------------------------------------------
(* str.strip, str.split('\n'), '\n'.join *)

RECURSIVE LStrip(_)
LStrip(s) == IF s # <<>> /\ Head(s) \in Whitespace THEN LStrip(Tail(s)) ELSE s

RECURSIVE RStrip(_)
RStrip(s) == IF s # <<>> /\ s[Len(s)] \in Whitespace
             THEN RStrip(SubSeq(s, 1, Len(s) - 1)) ELSE s

Strip(s) == RStrip(LStrip(s))

RECURSIVE Split(_)
Split(s) ==
  IF \A i \in 1..Len(s) : s[i] # "\n" THEN <<s>>
  ELSE LET i == CHOOSE j \in 1..Len(s) :
                  s[j] = "\n" /\ \A k \in 1..(j - 1) : s[k] # "\n"
       IN <<SubSeq(s, 1, i - 1)>> \o Split(SubSeq(s, i + 1, Len(s)))

RECURSIVE Join(_)
Join(lines) ==
  IF lines = <<>> THEN <<>>
  ELSE IF Len(lines) = 1 THEN lines[1]
  ELSE lines[1] \o <<"\n">> \o Join(Tail(lines))

----------------------------------------------------------------------------
(* utils.py *)

Marker == <<" ", "|", "<", "s", "p", "e", "c", "i", "a", "l", "-",
            "e", "n", "d", "-", "t", "o", "k", ">", "|">>

special_delim_token_nostrip(input_text) ==
  IF Strip(input_text) = <<>> THEN <<>>
  ELSE LET lines == Split(input_text)
       IN Join([i \in 1..Len(lines) |-> lines[i] \o Marker])

special_delim_token(input_text) ==
  IF Strip(input_text) = <<>> THEN <<>>
  ELSE LET lines == Split(Strip(input_text))
       IN Join([i \in 1..Len(lines) |-> lines[i] \o Marker])

clean_cypher_query_nostrip(cypher_query) ==
  LET query_lines == Split(cypher_query)
  IN Join(SubSeq(query_lines, 1, Len(query_lines) - 1))

clean_cypher_query(cypher_query) ==
  LET query_lines == Split(Strip(cypher_query))
  IN Join(SubSeq(query_lines, 1, Len(query_lines) - 1))

\* What the endpoint does with one request: the request fails with a non-200
\* status, fails in transport, fails otherwise (e.g. a response without
\* results), or returns generated text.
NetOutcomes == {"ok", "http_error", "request_error", "other_error"}

\* Result of one call: the exception raised (NoExc if none), the value
\* returned, the number of requests sent.
CallResult(e, value, sent) == [exc |-> e, value |-> value, posts |-> sent]

generate_text_granite_instruct(system_instruct, input_text, my_token, net, text, line) ==
  IF ~(Truthy(system_instruct) /\ input_text # <<>> /\ Truthy(my_token))
  THEN CallResult(Raise("ValueError", "All parameters must be provided", line), <<>>, 0)
  ELSE CASE net = "ok" -> CallResult(NoExc, text, 1)
         [] net = "http_error" ->
              CallResult(Raise("HTTPError", "HTTP error occurred", line), <<>>, 1)
         [] net = "request_error" ->
              CallResult(Raise("RequestException", "Request error occurred", line), <<>>, 1)
         [] OTHER ->
              CallResult(Raise("Exception", "An error occurred", line), <<>>, 1)

generate_code_granite_instruct_postfirst(input_text, system_instruct, my_token, net, text, line) ==
  IF ~(input_text # <<>> /\ Truthy(system_instruct) /\ Truthy(my_token))
  THEN CallResult(Raise("ValueError", "All parameters must be provided", line), <<>>, 1)
  ELSE CASE net = "ok" -> CallResult(NoExc, text, 1)
         [] net = "http_error" ->
              CallResult(Raise("Exception", "HTTP error occurred", line), <<>>, 1)
         [] net = "request_error" ->
              CallResult(Raise("Exception", "Request error occurred", line), <<>>, 1)
         [] OTHER ->
              CallResult(Raise("Exception", "An error occurred", line), <<>>, 1)

generate_code_granite_instruct(input_text, system_instruct, my_token, net, text, line) ==
  IF ~(input_text # <<>> /\ Truthy(system_instruct) /\ Truthy(my_token))
  THEN CallResult(Raise("ValueError", "All parameters must be provided", line), <<>>, 0)
  ELSE CASE net = "ok" -> CallResult(NoExc, text, 1)
         [] net = "http_error" ->
              CallResult(Raise("Exception", "HTTP error occurred", line), <<>>, 1)
         [] net = "request_error" ->
              CallResult(Raise("Exception", "Request error occurred", line), <<>>, 1)
         [] OTHER ->
              CallResult(Raise("Exception", "An error occurred", line), <<>>, 1)

----------------------------------------------------------------------------
(* app.py: the pipeline script *)

retries == 4

Stages == <<"extract", "themes", "normalize", "draft", "repair", "submit">>

Hist0 == [repair69 |-> 0,    \* repair calls made at app.py:69
          repair88 |-> 0,    \* repair calls made at app.py:88
          repair101 |-> 0,   \* repair calls made at app.py:101
          repair_fail |-> 0, \* repair calls of the loop that raised
          neo93 |-> 0,       \* query_neo calls made at app.py:93
          neo_fail |-> 0,    \* of these, the ones that raised
          neo117 |-> 0,      \* query_neo calls made at app.py:117
          neo117_fail |-> 0, \* of these, the ones that raised
          caught |-> 0,      \* exceptions caught at app.py:98
          late |-> 0]        \* repair or query_neo calls of the loop made while attempt = retries

Bump(h, f) == [h EXCEPT ![f] = @ + 1]
LoopRepairs(h) == h.repair88 + h.repair101

\* text a document yields: no chunk at all, or chunks each followed by "\n"
DocTexts == {<<>>, <<"d", "\n">>}

\* an uncaught exception ends the script
Die(e) == /\ pc' = "raised"
          /\ exc' = e

InitPipeline ==
  /\ pc = "l11"
  /\ TOKEN \in OptValues
  /\ system_instruct_0 = None
  /\ system_instruct_1 = None
  /\ system_instruct_2 = None
  /\ document_text = <<>>
  /\ themes_relationships = <<>>
  /\ delimited_node_edge_str = <<>>
  /\ cypher_query_draft = <<>>
  /\ cypher_query_final = <<>>
  /\ attempt = 0
  /\ success = FALSE
  /\ truncated_cypher = <<>>
  /\ exc = NoExc
  /\ posts = 0
  /\ hist = Hist0
  /\ started = {}
  /\ returned = {}
  /\ draft0 = <<>>
  /\ repair_in = {}
  /\ fnOp = "none"
  /\ fnIn = <<>>
  /\ fnArgs = <<None, None>>
  /\ fnOut = <<>>

\* app.py:11-14
CheckToken ==
  /\ pc = "l11"
  /\ IF TOKEN.none
     THEN Die(Raise("ValueError", "MY_TOKEN not found in environment variables.", 12))
     ELSE pc' = "l20" /\ exc' = exc
  /\ UNCHANGED <<pipeVars, posts, unitVars>>

\* app.py:20-23, utils.py:18-35
LoadInstructions ==
  /\ pc = "l20"
  /\ \/ /\ Die(Raise("Exception", "Instructions file not found", 20))
        /\ UNCHANGED <<system_instruct_0, system_instruct_1, system_instruct_2>>
     \/ /\ Die(Raise("Exception", "Error decoding JSON from file", 20))
        /\ UNCHANGED <<system_instruct_0, system_instruct_1, system_instruct_2>>
     \/ /\ system_instruct_0' \in OptValues
        /\ system_instruct_1' \in OptValues
        /\ system_instruct_2' \in OptValues
        /\ pc' = "l33"
        /\ exc' = exc
  /\ UNCHANGED <<TOKEN, document_text, themes_relationships,
                 delimited_node_edge_str, cypher_query_draft,
                 cypher_query_final, attempt, success, truncated_cypher,
                 posts, hist, started, returned, draft0, repair_in, unitVars>>

\* app.py:33, utils.py:42-97
DocumentProcessing ==
  /\ pc = "l33"
  /\ started' = started \cup {"extract"}
  /\ \/ /\ \E t \in {"ValueError", "Exception"} :
             Die(Raise(t, "document processing failed", 33))
        /\ UNCHANGED <<document_text, returned>>
     \/ /\ document_text' \in DocTexts
        /\ returned' = returned \cup {"extract"}
        /\ pc' = "l41"
        /\ exc' = exc
  /\ UNCHANGED <<TOKEN, system_instruct_0, system_instruct_1, system_instruct_2,
                 themes_relationships, delimited_node_edge_str,
                 cypher_query_draft, cypher_query_final, attempt, success,
                 truncated_cypher, posts, hist, draft0, repair_in, unitVars>>

\* app.py:41-43 with a failure of the call swallowed
ThemeStage_swallow ==
  /\ pc = "l41"
  /\ started' = started \cup {"themes"}
  /\ \E net \in NetOutcomes, text \in ModelTexts :
       LET r == generate_text_granite_instruct(system_instruct_0, document_text,
                                               TOKEN, net, text, 41)
       IN /\ posts' = posts + r.posts
          /\ themes_relationships' = r.value
          /\ returned' = IF r.exc # NoExc THEN returned ELSE returned \cup {"themes"}
          /\ pc' = "l53"
          /\ exc' = exc
  /\ UNCHANGED <<TOKEN, system_instruct_0, system_instruct_1, system_instruct_2,
                 document_text, delimited_node_edge_str, cypher_query_draft,
                 cypher_query_final, attempt, success, truncated_cypher,
                 hist, draft0, repair_in, unitVars>>

\* app.py:41-43
ThemeStage ==
  /\ pc = "l41"
  /\ started' = started \cup {"themes"}
  /\ \E net \in NetOutcomes, text \in ModelTexts :
       LET r == generate_text_granite_instruct(system_instruct_0, document_text,
                                               TOKEN, net, text, 41)
       IN /\ posts' = posts + r.posts
          /\ IF r.exc # NoExc
             THEN Die(r.exc) /\ UNCHANGED <<themes_relationships, returned>>
             ELSE /\ themes_relationships' = r.value
                  /\ returned' = returned \cup {"themes"}
                  /\ pc' = "l53"
                  /\ exc' = exc
  /\ UNCHANGED <<TOKEN, system_instruct_0, system_instruct_1, system_instruct_2,
                 document_text, delimited_node_edge_str, cypher_query_draft,
                 cypher_query_final, attempt, success, truncated_cypher,
                 hist, draft0, repair_in, unitVars>>

\* app.py:53
NormalizeStage ==
  /\ pc = "l53"
  /\ started' = started \cup {"normalize"}
  /\ delimited_node_edge_str' = special_delim_token(themes_relationships)
  /\ returned' = returned \cup {"normalize"}
  /\ pc' = "l59"
  /\ UNCHANGED <<TOKEN, system_instruct_0, system_instruct_1, system_instruct_2,
                 document_text, themes_relationships, cypher_query_draft,
                 cypher_query_final, attempt, success, truncated_cypher,
                 exc, posts, hist, draft0, repair_in, unitVars>>

\* app.py:59-61
DraftStage ==
  /\ pc = "l59"
  /\ started' = started \cup {"draft"}
  /\ \E net \in NetOutcomes, text \in ModelTexts :
       LET r == generate_code_granite_instruct(delimited_node_edge_str,
                                               system_instruct_1, TOKEN, net, text, 59)
       IN /\ posts' = posts + r.posts
          /\ IF r.exc # NoExc
             THEN Die(r.exc) /\ UNCHANGED <<cypher_query_draft, draft0, returned>>
             ELSE /\ cypher_query_draft' = r.value
                  /\ draft0' = r.value
                  /\ returned' = returned \cup {"draft"}
                  /\ pc' = "l69"
                  /\ exc' = exc
  /\ UNCHANGED <<TOKEN, system_instruct_0, system_instruct_1, system_instruct_2,
                 document_text, themes_relationships, delimited_node_edge_str,
                 cypher_query_final, attempt, success, truncated_cypher,
                 hist, repair_in, unitVars>>

\* the text every repair call of app.py is given (lines 69, 88, 101)
RepairInputFinal == cypher_query_final
RepairInput == cypher_query_draft

\* app.py:69-71, then 81-83
RepairStage ==
  /\ pc = "l69"
  /\ started' = started \cup {"repair"}
  /\ repair_in' = repair_in \cup {RepairInput}
  /\ hist' = Bump(hist, "repair69")
  /\ \E net \in NetOutcomes, text \in ModelTexts :
       LET r == generate_code_granite_instruct(RepairInput, system_instruct_2,
                                               TOKEN, net, text, 69)
       IN /\ posts' = posts + r.posts
          /\ IF r.exc # NoExc
             THEN Die(r.exc) /\ UNCHANGED <<cypher_query_final, returned>>
             ELSE /\ cypher_query_final' = r.value
                  /\ returned' = returned \cup {"repair"}
                  /\ pc' = "l85"
                  /\ exc' = exc
  /\ attempt' = 0
  /\ success' = FALSE
  /\ UNCHANGED <<TOKEN, system_instruct_0, system_instruct_1, system_instruct_2,
                 document_text, themes_relationships, delimited_node_edge_str,
                 cypher_query_draft, truncated_cypher, draft0, unitVars>>

loopFrame == <<TOKEN, system_instruct_0, system_instruct_1, system_instruct_2,
               document_text, themes_relationships, delimited_node_edge_str,
               cypher_query_draft, truncated_cypher, started, returned,
               draft0, unitVars>>

\* a repair or primary submission call counted as late when the counter is exhausted
Late(h) == IF attempt >= retries THEN Bump(h, "late") ELSE h

\* app.py:85
LoopWhile ==
  /\ pc = "l85"
  /\ pc' = IF attempt < retries THEN "l88" ELSE "l112"
  /\ UNCHANGED <<loopFrame, cypher_query_final, attempt, success, exc, posts,
                 hist, repair_in>>

\* app.py:86-90 with the except clause of line 98: the repair call is made inside the try block
LoopTryRepair_uncaught ==
  /\ pc = "l88"
  /\ repair_in' = repair_in \cup {RepairInput}
  /\ \E net \in NetOutcomes, text \in ModelTexts :
       LET r == generate_code_granite_instruct(RepairInput, system_instruct_2,
                                               TOKEN, net, text, 88)
       IN /\ posts' = posts + r.posts
          /\ IF r.exc # NoExc
             THEN /\ hist' = Bump(Bump(Late(hist), "repair88"), "repair_fail")
                  /\ Die(r.exc)
                  /\ UNCHANGED cypher_query_final
             ELSE /\ hist' = Bump(Late(hist), "repair88")
                  /\ cypher_query_final' = r.value
                  /\ pc' = "l93"
                  /\ exc' = exc
  /\ UNCHANGED <<loopFrame, attempt, success>>

LoopTryRepair ==
  /\ pc = "l88"
  /\ repair_in' = repair_in \cup {RepairInput}
  /\ \E net \in NetOutcomes, text \in ModelTexts :
       LET r == generate_code_granite_instruct(RepairInput, system_instruct_2,
                                               TOKEN, net, text, 88)
       IN /\ posts' = posts + r.posts
          /\ IF r.exc # NoExc
             THEN /\ hist' = Bump(Bump(Bump(Late(hist), "repair88"), "repair_fail"), "caught")
                  /\ pc' = "l98"
                  /\ UNCHANGED cypher_query_final
             ELSE /\ hist' = Bump(Late(hist), "repair88")
                  /\ cypher_query_final' = r.value
                  /\ pc' = "l93"
  /\ UNCHANGED <<loopFrame, attempt, success, exc>>

\* app.py:93-96 with the except clause of line 98; utils.py:288-303
LoopSubmit ==
  /\ pc = "l93"
  /\ started' = started \cup {"submit"}
  /\ \/ /\ hist' = Bump(Late(hist), "neo93")
        /\ success' = TRUE
        /\ returned' = returned \cup {"submit"}
        /\ pc' = "l112"
     \/ /\ hist' = Bump(Bump(Bump(Late(hist), "neo93"), "neo_fail"), "caught")
        /\ pc' = "l98"
        /\ UNCHANGED <<success, returned>>
  /\ UNCHANGED <<TOKEN, system_instruct_0, system_instruct_1, system_instruct_2,
                 document_text, themes_relationships, delimited_node_edge_str,
                 cypher_query_draft, cypher_query_final, truncated_cypher,
                 draft0, unitVars, attempt, exc, posts, repair_in>>

\* app.py:98-103: the repair call of the handler is outside every try block
LoopHandlerRepair ==
  /\ pc = "l98"
  /\ repair_in' = repair_in \cup {RepairInput}
  /\ \E net \in NetOutcomes, text \in ModelTexts :
       LET r == generate_code_granite_instruct(RepairInput, system_instruct_2,
                                               TOKEN, net, text, 101)
       IN /\ posts' = posts + r.posts
          /\ IF r.exc # NoExc
             THEN /\ hist' = Bump(Bump(Late(hist), "repair101"), "repair_fail")
                  /\ Die(r.exc)
                  /\ UNCHANGED cypher_query_final
             ELSE /\ hist' = Bump(Late(hist), "repair101")
                  /\ cypher_query_final' = r.value
                  /\ pc' = "l105"
                  /\ exc' = exc
  /\ UNCHANGED <<loopFrame, attempt, success>>

\* app.py:105-109 without the check of line 107
LoopIncrement_noraise ==
  /\ pc = "l105"
  /\ attempt' = attempt + 1
  /\ pc' = "l85"
  /\ UNCHANGED <<loopFrame, cypher_query_final, success, exc, posts, hist, repair_in>>

\* app.py:105 adding two
LoopIncrement_by2 ==
  /\ pc = "l105"
  /\ attempt' = attempt + 2
  /\ IF attempt' >= retries
     THEN Die(Raise("Exception", "Query failed after multiple attempts.", 109))
     ELSE pc' = "l85" /\ exc' = exc
  /\ UNCHANGED <<loopFrame, cypher_query_final, success, posts, hist, repair_in>>

\* app.py:105-109
LoopIncrement ==
  /\ pc = "l105"
  /\ attempt' = attempt + 1
  /\ IF attempt' = retries
     THEN Die(Raise("Exception", "Query failed after multiple attempts.", 109))
     ELSE pc' = "l85" /\ exc' = exc
  /\ UNCHANGED <<loopFrame, cypher_query_final, success, posts, hist, repair_in>>

\* app.py:112-119; the except clause of line 118 swallows a failure of line 117
FallbackBlock ==
  /\ pc = "l112"
  /\ IF ~success
     THEN /\ truncated_cypher' = clean_cypher_query(cypher_query_draft)
          /\ \/ hist' = Bump(hist, "neo117")
             \/ hist' = Bump(Bump(hist, "neo117"), "neo117_fail")
     ELSE UNCHANGED <<truncated_cypher, hist>>
  /\ pc' = "done"
  /\ UNCHANGED <<TOKEN, system_instruct_0, system_instruct_1, system_instruct_2,
                 document_text, themes_relationships, delimited_node_edge_str,
                 cypher_query_draft, cypher_query_final, attempt, success,
                 started, returned, draft0, repair_in, exc, posts, unitVars>>

Terminal == {"done", "raised"}

Init == InitPipeline

Next ==
  \/ CheckToken
  \/ LoadInstructions
  \/ DocumentProcessing
  \/ ThemeStage
  \/ NormalizeStage
  \/ DraftStage
  \/ RepairStage
  \/ LoopWhile
  \/ LoopTryRepair
  \/ LoopSubmit
  \/ LoopHandlerRepair
  \/ LoopIncrement
  \/ FallbackBlock

Spec == Init /\ [][Next]_vars

\* the interpreter runs the script to its end: every enabled step is taken
FairSpec == Spec /\ WF_vars(Next)

TypeOK ==
  /\ attempt \in 0..retries
  /\ success \in BOOLEAN
  /\ posts \in Nat

----------------------------------------------------------------------------
(* Direct calls of the utils.py functions on arbitrary arguments *)

InitUnits ==
  /\ pc = "unit"
  /\ fnIn \in UnitTexts
  /\ fnArgs \in OptValues \X OptValues
  /\ fnOp = "none"
  /\ fnOut = <<>>
  /\ exc = NoExc
  /\ posts = 0
  /\ TOKEN = None
  /\ system_instruct_0 = None
  /\ system_instruct_1 = None
  /\ system_instruct_2 = None
  /\ document_text = <<>>
  /\ themes_relationships = <<>>
  /\ delimited_node_edge_str = <<>>
  /\ cypher_query_draft = <<>>
  /\ cypher_query_final = <<>>
  /\ attempt = 0
  /\ success = FALSE
  /\ truncated_cypher = <<>>
  /\ hist = Hist0
  /\ started = {}
  /\ returned = {}
  /\ draft0 = <<>>
  /\ repair_in = {}

\* utils.py:306-333
CallSpecialDelimToken ==
  /\ pc = "unit"
  /\ fnOp' = "special_delim_token"
  /\ fnOut' = special_delim_token(fnIn)
  /\ pc' = "unit_done"
  /\ UNCHANGED <<pipeVars, fnIn, fnArgs, exc, posts>>

\* utils.py:268-278
CallCleanCypherQuery ==
  /\ pc = "unit"
  /\ fnOp' = "clean_cypher_query"
  /\ fnOut' = clean_cypher_query(fnIn)
  /\ pc' = "unit_done"
  /\ UNCHANGED <<pipeVars, fnIn, fnArgs, exc, posts>>

\* utils.py:106-176, called as generate_text_granite_instruct(fnArgs[1], fnIn, fnArgs[2])
CallGenerateText ==
  /\ pc = "unit"
  /\ fnOp' = "generate_text_granite_instruct"
  /\ \E net \in NetOutcomes, text \in ModelTexts :
       LET r == generate_text_granite_instruct(fnArgs[1], fnIn, fnArgs[2], net, text, 0)
       IN /\ posts' = posts + r.posts
          /\ exc' = r.exc
          /\ fnOut' = r.value
  /\ pc' = "unit_done"
  /\ UNCHANGED <<pipeVars, fnIn, fnArgs>>

\* utils.py:186-262, called as generate_code_granite_instruct(fnIn, fnArgs[1], fnArgs[2])
CallGenerateCode ==
  /\ pc = "unit"
  /\ fnOp' = "generate_code_granite_instruct"
  /\ \E net \in NetOutcomes, text \in ModelTexts :
       LET r == generate_code_granite_instruct(fnIn, fnArgs[1], fnArgs[2], net, text, 0)
       IN /\ posts' = posts + r.posts
          /\ exc' = r.exc
          /\ fnOut' = r.value
  /\ pc' = "unit_done"
  /\ UNCHANGED <<pipeVars, fnIn, fnArgs>>

NextUnits ==
  \/ CallSpecialDelimToken
  \/ CallCleanCypherQuery
  \/ CallGenerateText
  \/ CallGenerateCode

SpecUnits == InitUnits /\ [][NextUnits]_vars

----------------------------------------------------------------------------
(* Properties *)

HasNewline(s) == \E i \in 1..Len(s) : s[i] = "\n"
AllWhitespace(s) == \A i \in 1..Len(s) : s[i] \in Whitespace

\* the part of s between its leading and its trailing whitespace
Trimmed(s) ==
  IF AllWhitespace(s) THEN <<>>
  ELSE LET a == CHOOSE i \in 1..Len(s) :
                  s[i] \notin Whitespace /\ \A k \in 1..(i - 1) : s[k] \in Whitespace
           b == CHOOSE j \in 1..Len(s) :
                  s[j] \notin Whitespace /\ \A k \in (j + 1)..Len(s) : s[k] \in Whitespace
       IN [i \in 1..(b - a + 1) |-> s[a + i - 1]]

\* the lines of a text, a final line break closing the last line
InputLines(s) ==
  IF s # <<>> /\ s[Len(s)] = "\n" THEN Split(SubSeq(s, 1, Len(s) - 1)) ELSE Split(s)

LoopEnded == pc \in {"l112", "done"}

\* C1 (as stated): when the Graph Applier fails N < retries times and then
\* succeeds, and no repair call fails, the run has made exactly N+1
\* submissions and exactly N+1 repair calls once the loop has ended.
C1_Stated ==
  (LoopEnded /\ success /\ hist.repair_fail = 0) =>
    /\ hist.neo93 = hist.neo_fail + 1
    /\ LoopRepairs(hist) = hist.neo_fail + 1

\* C2 (as stated): when all 4 submissions of repaired scripts fail, the run
\* ends without an exception after exactly one fallback submission of
\* clean_cypher_query(draft).
C2_Stated ==
  (pc \in Terminal /\ hist.neo_fail = retries) =>
    /\ pc = "done"
    /\ exc = NoExc
    /\ hist.neo93 = retries
    /\ hist.neo117 = 1
    /\ truncated_cypher = clean_cypher_query(draft0)

\* C3 (as stated): whenever a repair call of the retry loop has failed, the
\* failure was not caught: the run has ended with that error.
C3_Stated ==
  hist.repair_fail > 0 => (pc = "raised" /\ exc.line \in {88, 101})

\* C3 (amended): a failure of the repair call of the try block (line 88) is
\* caught like a failed submission and never ends the run; a failure of the
\* repair call of the handler (line 101) ends the run with that error, the
\* attempt counter not incremented for the iteration.
C3_Amended ==
  /\ exc.line \notin {88, 93}
  /\ hist.repair_fail > 0 =>
       \/ pc = "raised" /\ exc.line = 101
       \/ hist.caught >= 1 /\ exc.line \in {0, 109}
  /\ exc.line = 101 =>
       /\ pc = "raised"
       /\ exc.type = "Exception"
       /\ attempt = hist.caught - 1
       /\ attempt < retries

C3_Witness ==
  /\ pc = "raised" /\ exc.line = 101
  /\ hist.neo93 = 0
  /\ hist.repair_fail = 3
  /\ attempt = 1

\* C4: once the attempt counter has reached retries the run has ended with the
\* exception of line 109, and no repair call and no primary submission was
\* made with the counter at retries.
C4_Terminal ==
  /\ attempt = retries =>
       /\ pc = "raised"
       /\ exc = Raise("Exception", "Query failed after multiple attempts.", 109)
  /\ hist.late = 0
  /\ pc = "l112" => success

C4_Witness ==
  /\ attempt = retries
  /\ pc = "raised"
  /\ hist.neo_fail = retries

EmptyArg == fnIn = <<>> \/ ~Truthy(fnArgs[1]) \/ ~Truthy(fnArgs[2])

\* C5: a call of generate_text_granite_instruct or
\* generate_code_granite_instruct with an empty instruction, input text or
\* credential raises ValueError and sends no request.
C5_InvalidInput ==
  [][(pc = "unit" /\ EmptyArg
       /\ fnOp' \in {"generate_text_granite_instruct", "generate_code_granite_instruct"})
     => (exc'.type = "ValueError" /\ posts' = posts)]_vars

C5_Witness ==
  /\ pc = "unit_done"
  /\ fnOp = "generate_code_granite_instruct"
  /\ fnIn # <<>> /\ Truthy(fnArgs[1]) /\ fnArgs[2] = Str(<<>>)
  /\ exc.type = "ValueError"
  /\ posts = 0

\* C6 (as stated): for a multi-line input with some non-blank content,
\* special_delim_token returns as many lines as the input has, each being the
\* input line followed by the marker.
C6_Stated ==
  (pc = "unit_done" /\ fnOp = "special_delim_token"
     /\ HasNewline(fnIn) /\ ~AllWhitespace(fnIn)) =>
    LET inl == InputLines(fnIn)
        outl == Split(fnOut)
    IN /\ Len(outl) = Len(inl)
       /\ \A i \in 1..Len(inl) : outl[i] = inl[i] \o Marker

\* C6 (amended): for an input that is not all whitespace, special_delim_token
\* returns one line per line of the input with its leading and trailing
\* whitespace removed, in order, each followed by the marker.
C6_Amended ==
  (pc = "unit_done" /\ fnOp = "special_delim_token" /\ ~AllWhitespace(fnIn)) =>
    LET inl == Split(Trimmed(fnIn))
        outl == Split(fnOut)
    IN /\ Len(outl) = Len(inl)
       /\ \A i \in 1..Len(inl) : outl[i] = inl[i] \o Marker

C6_Witness ==
  /\ pc = "unit_done" /\ fnOp = "special_delim_token"
  /\ fnIn = <<"\n", "a", "\n", "b">>
  /\ fnOut = <<"a">> \o Marker \o <<"\n", "b">> \o Marker

\* C7 (as stated): clean_cypher_query returns the first k-1 of the k lines of
\* the draft, unchanged.
C7_Stated ==
  (pc = "unit_done" /\ fnOp = "clean_cypher_query" /\ fnIn # <<>>) =>
    LET l == InputLines(fnIn)
    IN fnOut = Join(SubSeq(l, 1, Len(l) - 1))

\* C7 (amended): clean_cypher_query returns the draft without its leading and
\* trailing whitespace and without the last line of what remains; when that
\* is a single line the result is empty.
C7_Amended ==
  (pc = "unit_done" /\ fnOp = "clean_cypher_query") =>
    LET core == Trimmed(fnIn)
        n == Len(fnOut)
    IN IF ~HasNewline(core) THEN fnOut = <<>>
       ELSE /\ n < Len(core)
            /\ SubSeq(core, 1, n) = fnOut
            /\ core[n + 1] = "\n"
            /\ \A j \in (n + 2)..Len(core) : core[j] # "\n"

C7_Witness ==
  /\ pc = "unit_done" /\ fnOp = "clean_cypher_query"
  /\ fnIn = <<"a", "\n", "b", "\n">>
  /\ fnOut = <<"a">>

\* C8: the draft keeps the value the Query Drafting Stage returned, every
\* repair call is given that value, and the truncated script is computed
\* from it.
C8_DraftFrozen ==
  /\ "draft" \in returned => cypher_query_draft = draft0
  /\ repair_in \subseteq {draft0}
  /\ hist.neo117 > 0 => truncated_cypher = clean_cypher_query(draft0)

C8_Witness ==
  /\ hist.repair69 = 1 /\ hist.repair88 >= 2 /\ hist.repair101 >= 1
  /\ cypher_query_final # cypher_query_draft
  /\ repair_in = {cypher_query_draft}

StageLine == [s \in {Stages[i] : i \in 1..Len(Stages)} |->
                CASE s = "extract" -> 33 [] s = "themes" -> 41
                  [] s = "normalize" -> 53 [] s = "draft" -> 59
                  [] s = "repair" -> 69 [] OTHER -> 93]

\* C9: a stage has started only if its predecessor has returned a result, and
\* after a failure before the retry loop no later stage has started and the
\* Graph Applier was never called.
C9_Sequential ==
  /\ \A i \in 2..Len(Stages) : Stages[i] \in started => Stages[i - 1] \in returned
  /\ returned \subseteq started
  /\ (pc = "raised" /\ exc.line < 85) =>
       /\ \A s \in DOMAIN StageLine : StageLine[s] > exc.line => s \notin started
       /\ hist.neo93 = 0 /\ hist.neo117 = 0

C9_Witness ==
  /\ pc = "raised" /\ exc.line = 59
  /\ started = {"extract", "themes", "normalize", "draft"}
  /\ returned = {"extract", "themes", "normalize"}

InHandler == pc \in {"l98", "l105"} \/ (pc = "raised" /\ exc.line = 101)

C10_Inv ==
  /\ attempt \in 0..retries
  /\ attempt = hist.caught - (IF InHandler THEN 1 ELSE 0)
  /\ success => hist.neo93 - hist.neo_fail = 1
  /\ hist.neo93 <= retries
  /\ hist.repair88 <= retries

\* C10: 0 <= attempt <= retries, attempt is the number of iterations whose
\* handler completed, success only after a submission that returned, at most
\* retries submissions, and the loop terminates.
C10_Loop == [](C10_Inv) /\ <>(pc \in Terminal)

C10_Witness ==
  /\ pc = "l93"
  /\ attempt = retries - 1
  /\ hist.neo93 = retries - 1
  /\ hist.caught = retries - 1

====
